---- MODULE Spec2Model ----
(***************************************************************************)
(* Retraining and hot-swap lifecycle of the two model-serving APIs:        *)
(*   api/housing_api.py  (service "housing", /retrain runs synchronously)  *)
(*   api/main.py         (service "iris", /retrain runs as background task)*)
(* Both handlers are plain `def` endpoints, so FastAPI executes every      *)
(* request on a worker thread: requests of one process interleave at the   *)
(* reads and writes of the module globals (retraining_status, model).      *)
(* The two processes share the working directory and so the model          *)
(* artifact files written by the retrainer.                                *)
(***************************************************************************)
EXTENDS Integers, Sequences, FiniteSets, TLC

\* ---------------------------------------------------------------- bounds
\* number of POST /retrain requests that are admitted in one behaviour
MaxRequests == 2
\* the same, where /predict workers run beside the /retrain workers
MaxServeRequests == 1
\* POST /predict requests received in one behaviour of the handler
MaxPredicts == 3

\* ------------------------------------------------------------- constants
Services == {"housing", "iris"}
ModelTypes == {"housing", "iris"}
\* request worker threads of each process that serve POST /retrain
HThreads == {"h1", "h2"}
IThreads == {"i1", "i2"}
RThreads == HThreads \cup IThreads
\* request worker threads that serve POST /predict
PThreads == {"hp", "ip"}
\* request worker threads of each process whose POST /predict is followed
\* statement by statement
HQThreads == {"hq1", "hq2"}
IQThreads == {"iq1", "iq2"}
QThreads == HQThreads \cup IQThreads

svc(t) ==
    IF t \in HThreads \cup HQThreads \/ t = "hp" THEN "housing" ELSE "iris"

None == "None"

\* RetrainRequest: model_type is Optional[str] ("None" is the absent value)
RetrainRequest == [model_type : {"housing", "iris", None}, force : BOOLEAN]

\* model_type is declared Optional[str] without a constraint: every string is
\* a valid body, "foo" stands for the strings that name no model
AnyRetrainRequest ==
    [model_type : {"housing", "iris", None, "foo"}, force : BOOLEAN]

\* reports of ModelPerformanceMonitor.evaluate_model_performance: a dict that
\* carries needs_retraining true, false, or no such key
Reports == {"needs_true", "needs_false", "no_verdict"}

\* the test with its `not` lost: anything but an explicit true retrains
GetNeedsRetraining_Negated(performance) == performance # "needs_true"

\* performance.get("needs_retraining", False)
GetNeedsRetraining(performance) == performance = "needs_true"

\* a selection that knows the two names only: any other value selects nothing
ModelsToRetrain_Strict(model_type) ==
    IF model_type = "housing" THEN <<"housing">>
    ELSE IF model_type = "iris" THEN <<"iris">>
    ELSE IF model_type = None THEN <<"housing", "iris">>
    ELSE <<>>

\* models_to_retrain of run_model_retraining
ModelsToRetrain(model_type) ==
    IF model_type = "housing" THEN <<"housing">>
    ELSE IF model_type = "iris" THEN <<"iris">>
    ELSE <<"housing", "iris">>

\* a dict entry or response that is not there
Absent == [status |-> None]

\* a worker thread that has not answered a request yet
NoResponse == [code |-> 0, status |-> None]

\* results["results"] before the loop
NoResults == [m \in ModelTypes |-> Absent]

SkippedResult(performance) ==
    [status |-> "skipped", reason |-> "performance_acceptable",
     performance |-> performance]

\* {"status": "failed", "error": str(e)}
FailedResult(e) == [status |-> "failed", error |-> e]

\* the dict the retrainer returns
RetrainResult == [status |-> "retrained"]


\* ------------------------------------------------- request validation
\* Field values are fixed-point numbers: a housing field holds tenths
\* (425 is 42.5), an iris field holds hundredths (5 is 0.05).

\* HousingRequest: the fields in declaration order
HousingOrder ==
    <<"total_rooms", "total_bedrooms", "population", "households",
      "median_income", "housing_median_age", "latitude", "longitude">>

\* IrisRequest: the fields in declaration order
IrisOrder == <<"sepal_length", "sepal_width", "petal_length", "petal_width">>

Order(api) == IF api = "housing" THEN HousingOrder ELSE IrisOrder

\* Field(gt=.. | ge=.., le=..) of HousingRequest, in tenths
HousingBounds ==
    [total_rooms |-> [lo |-> 0, strict |-> TRUE, hi |-> 500000],
     total_bedrooms |-> [lo |-> 0, strict |-> TRUE, hi |-> 100000],
     population |-> [lo |-> 10, strict |-> FALSE, hi |-> 500000],
     households |-> [lo |-> 10, strict |-> FALSE, hi |-> 100000],
     median_income |-> [lo |-> 0, strict |-> TRUE, hi |-> 200],
     housing_median_age |-> [lo |-> 0, strict |-> FALSE, hi |-> 600],
     latitude |-> [lo |-> 320, strict |-> FALSE, hi |-> 425],
     longitude |-> [lo |-> 0 - 1250, strict |-> FALSE, hi |-> 0 - 1140]]

\* Field(ge=.., le=..) of IrisRequest, in hundredths
IrisBounds ==
    [sepal_length |-> [lo |-> 300, strict |-> FALSE, hi |-> 1000],
     sepal_width |-> [lo |-> 150, strict |-> FALSE, hi |-> 500],
     petal_length |-> [lo |-> 50, strict |-> FALSE, hi |-> 800],
     petal_width |-> [lo |-> 5, strict |-> FALSE, hi |-> 300]]

Bounds(api) == IF api = "housing" THEN HousingBounds ELSE IrisBounds

\* the gt / ge and le constraints of one field
InBounds(b, v) ==
    /\ IF b.strict THEN v > b.lo ELSE v >= b.lo
    /\ v <= b.hi

\* A validator receives in `values` the fields declared before its own that
\* passed; `seen` is the set of their names and r the request.

\* a validator that looks its whole up under a key no field has
validate_bedrooms_vs_rooms_WrongKey(v, r, seen) ==
    ~("rooms" \in seen /\ v > r.total_rooms)

\* @validator("total_bedrooms")
validate_bedrooms_vs_rooms(v, r, seen) ==
    ~("total_rooms" \in seen /\ v > r.total_rooms)

\* the validator with an upper limit of 10 persons per household
validate_households_vs_population_Tight(v, r, seen) ==
    "population" \in seen =>
        /\ ~(v > r.population)
        /\ ~(2 * r.population < v \/ r.population > 10 * v)

\* @validator("households"): avg_household_size = population / v must lie
\* in [0.5, 20]
validate_households_vs_population(v, r, seen) ==
    "population" \in seen =>
        /\ ~(v > r.population)
        /\ ~(2 * r.population < v \/ r.population > 20 * v)

\* @validator("total_rooms"): avg_rooms = v / households must lie in [0.5, 50]
validate_rooms_per_household(v, r, seen) ==
    ("households" \in seen /\ r.households > 0) =>
        ~(2 * v < r.households \/ v > 50 * r.households)

\* @validator("petal_width"): ratio = v / petal_length must lie in [0.01, 1.0]
validate_petal_proportions(v, r, seen) ==
    "petal_length" \in seen =>
        /\ ~(v > r.petal_length)
        /\ ~(100 * v < r.petal_length \/ v > r.petal_length)

\* @validator("sepal_width"): ratio = v / sepal_length must lie in [0.2, 1.0]
validate_sepal_proportions(v, r, seen) ==
    "sepal_length" \in seen =>
        /\ ~(v > r.sepal_length)
        /\ ~(5 * v < r.sepal_length \/ v > r.sepal_length)

\* the validator attached to field f
FieldValidator(f, v, r, seen) ==
    CASE f = "total_bedrooms" -> validate_bedrooms_vs_rooms(v, r, seen)
      [] f = "households" -> validate_households_vs_population(v, r, seen)
      [] f = "total_rooms" -> validate_rooms_per_household(v, r, seen)
      [] f = "petal_width" -> validate_petal_proportions(v, r, seen)
      [] f = "sepal_width" -> validate_sepal_proportions(v, r, seen)
      [] OTHER -> TRUE

\* the first n fields, validated in declaration order: a field is validated
\* against its constraints and then by its validator, and only a field that
\* passed is put in `values`
RECURSIVE Validated(_, _, _)
Validated(api, r, n) ==
    IF n = 0 THEN {}
    ELSE LET seen == Validated(api, r, n - 1)
             f == Order(api)[n]
         IN IF /\ InBounds(Bounds(api)[f], r[f])
               /\ FieldValidator(f, r[f], r, seen)
            THEN seen \cup {f}
            ELSE seen

\* validators declared with pre=True: they run before the constraints
RunsValidator_Pre(api, f, r) == TRUE

\* the validator of a field runs once the field has passed its constraints
RunsValidator(api, f, r) == InBounds(Bounds(api)[f], r[f])

\* the divisors of the divisions the validator of field f evaluates
ValidatorDivisors(f, v, r, seen) ==
    CASE f = "households" ->
           IF "population" \in seen /\ ~(v > r.population) THEN {v} ELSE {}
      [] f = "total_rooms" ->
           IF "households" \in seen /\ r.households > 0
           THEN {r.households} ELSE {}
      [] f = "petal_width" ->
           IF "petal_length" \in seen /\ ~(v > r.petal_length)
           THEN {r.petal_length} ELSE {}
      [] f = "sepal_width" ->
           IF "sepal_length" \in seen /\ ~(v > r.sepal_length)
           THEN {r.sepal_length} ELSE {}
      [] OTHER -> {}

\* the divisors of every division validation evaluates for request r
Divisors(api, r) ==
    UNION {IF RunsValidator(api, Order(api)[i], r)
           THEN ValidatorDivisors(Order(api)[i], r[Order(api)[i]], r,
                                  Validated(api, r, i - 1))
           ELSE {} : i \in 1..Len(Order(api))}

\* a validation that stops at the first field that fails
Errors_FirstOnly(api, r) ==
    LET failed == {i \in 1..Len(Order(api)) :
                     Order(api)[i] \notin Validated(api, r, Len(Order(api)))}
    IN {Order(api)[i] : i \in {j \in failed : \A k \in failed : j <= k}}

\* the fields the validation error of request r names
Errors(api, r) ==
    {Order(api)[i] : i \in 1..Len(Order(api))}
        \ Validated(api, r, Len(Order(api)))

\* predict of housing_api.py: AveRooms = total_rooms / households must not
\* exceed 50, AveBedrms = total_bedrooms / households must not exceed 10
DerivedFeaturesOk(r) ==
    /\ ~(r.total_rooms > 50 * r.households)
    /\ ~(r.total_bedrooms > 10 * r.households)

\* predict of main.py: petal_length < 1.0 and petal_width > 0.5 is refused
BiologicalOk(r) == ~(r.petal_length < 100 /\ r.petal_width > 50)

\* the check the handler itself makes on a validated request
HandlerCheckOk(api, r) ==
    IF api = "housing" THEN DerivedFeaturesOk(r) ELSE BiologicalOk(r)

\* the exception that check raises
HandlerCheckCause(api) ==
    IF api = "housing" THEN "derived_feature" ELSE "biological"

\* a handler whose second except clause lets an HTTPException through
Caught_PassesHTTPException(exception, cause) ==
    IF exception = "ValidationError" \/ exception = "HTTPException422"
    THEN [code |-> 422, error |-> "ValidationError", cause |-> cause,
          fields |-> {}]
    ELSE [code |-> 500, error |-> "PredictionError", cause |-> cause,
          fields |-> {}]

\* except ValidationError: 422; except Exception: 500 PredictionError.  An
\* HTTPException raised inside the try block is an Exception.
Caught(exception, cause) ==
    IF exception = "ValidationError"
    THEN [code |-> 422, error |-> "ValidationError", cause |-> cause,
          fields |-> {}]
    ELSE [code |-> 500, error |-> "PredictionError", cause |-> cause,
          fields |-> {}]

\* the 422 FastAPI answers when the request body fails validation
Unprocessable(fields) ==
    [code |-> 422, error |-> "RequestValidationError",
     cause |-> "field_validation", fields |-> fields]

\* a table of names that is one class off
class_names_get_Shifted(predicted_class) ==
    CASE predicted_class = 0 -> "versicolor"
      [] predicted_class = 1 -> "virginica"
      [] predicted_class = 2 -> "setosa"
      [] OTHER -> "unknown"

\* class_names.get(predicted_class, "unknown") of main.py
class_names_get(predicted_class) ==
    CASE predicted_class = 0 -> "setosa"
      [] predicted_class = 1 -> "versicolor"
      [] predicted_class = 2 -> "virginica"
      [] OTHER -> "unknown"

\* HousingResponse(predicted_price=..) / IrisResponse(predicted_class=..,
\* class_name=..); IrisResponse declares predicted_class with ge=0, le=2 and
\* its construction raises a ValidationError otherwise
Result(api, v) ==
    IF api = "iris" /\ (v < 0 \/ v > 2)
    THEN Caught("ValidationError", "response_validation")
    ELSE [code |-> 200, error |-> None, cause |-> None, fields |-> {},
          prediction |-> v,
          class_name |-> IF api = "iris" THEN class_names_get(v) ELSE None]

\* prediction < 0 or prediction > 10 ; predicted_class < 0 or > 2
Unusual(api, v) == IF api = "housing" THEN v < 0 \/ v > 10 ELSE v < 0 \/ v > 2

\* what the model returns: a price or class inside or outside that range
Outputs(api) == IF api = "housing" THEN {2, 11} ELSE {0, 1, 2, 3}

\* requests sent to the worker threads of the two APIs
GoodHousing ==
    [total_rooms |-> 50000, total_bedrooms |-> 12000, population |-> 30000,
     households |-> 10000, median_income |-> 55, housing_median_age |-> 250,
     latitude |-> 378, longitude |-> 0 - 1222]

GoodIris ==
    [sepal_length |-> 580, sepal_width |-> 300, petal_length |-> 430,
     petal_width |-> 130]

Typical(api) == IF api = "housing" THEN GoodHousing ELSE GoodIris

Samples(api) ==
    IF api = "housing"
    THEN {GoodHousing,
          [GoodHousing EXCEPT !.median_income = 0 - 10],
          [GoodHousing EXCEPT !.total_bedrooms = 60000],
          [GoodHousing EXCEPT !.households = 10, !.population = 100]}
    ELSE {GoodIris,
          [GoodIris EXCEPT !.sepal_length = 0 - 100],
          [GoodIris EXCEPT !.petal_length = 100],
          [GoodIris EXCEPT !.petal_length = 90, !.petal_width = 60]}

\* requests on and around every bound, every cross-field rule and every
\* check of the handlers
HousingSweep ==
    [total_rooms : {0, 10, 300, 600, 500000, 500010},
     total_bedrooms : {0, 10, 150, 100000, 100010},
     population : {5, 10, 30, 250, 500000, 500010},
     households : {0, 5, 10, 20, 30, 100000, 100010},
     median_income : {0 - 10, 55, 210},
     housing_median_age : {0 - 10, 250, 610},
     latitude : {310, 378, 500},
     longitude : {0 - 1300, 0 - 1222, 0 - 1000}]

IrisSweep ==
    [sepal_length : {0 - 100, 0, 300, 580, 1000, 1010},
     sepal_width : {140, 150, 300, 500, 510},
     petal_length : {0, 40, 50, 90, 430, 800, 810},
     petal_width : {4, 5, 60, 130, 300, 310}]

Sweep(api) == IF api = "housing" THEN HousingSweep ELSE IrisSweep

VARIABLES
    is_running,   \* retraining_status["is_running"] of each process
    last_run,     \* retraining_status["last_run"]: the start_time of a run,
                  \* which is written as the thread that ran it
    last_result,  \* retraining_status["last_result"]
    model,        \* the global `model` of each process: the artifact version
                  \* it was loaded from (0 is the model loaded at start-up)
    artifact,     \* version held by the artifact file of each model type
                  \* (models/DecisionTree.pkl, models/iris_model.pkl)
    pc,           \* position of each /retrain worker thread
    req,          \* the request a worker thread is serving
    todo,         \* rest of models_to_retrain in the run's for loop
    results,      \* results["results"] of the run
    performance,  \* the monitor's report the run evaluated last
    resp,         \* last HTTP response of the worker thread
    before,       \* the model reference that was active when the run started
    admitted,     \* number of /retrain requests admitted so far
    ppc,          \* position of each /predict worker thread
    pused,        \* the model reference a /predict call read
    presp,        \* last HTTP response of the /predict worker thread
    preq,         \* the request body a /predict worker thread received last
    pval,         \* the value model.predict returned to the thread
    pts,          \* the datetime.now() the thread read for its row
    rows,         \* housinglogs / irislogs as the shared connection sees
                  \* them, in id order
    committed,    \* how many of these rows a commit has made durable
    prediction_count,  \* the global prediction_count of housing_api.py
    clock,        \* the wall clock: the value the next datetime.now() returns
    received      \* number of /predict requests received so far

vars == <<is_running, last_run, last_result, model, artifact, pc, req, todo,
          results, performance, resp, before, admitted, ppc, pused, presp,
          preq, pval, pts, rows, committed, prediction_count, clock, received>>

shared == <<is_running, last_run, last_result, model, artifact>>
locals == <<req, todo, results, performance, before>>
handlerVars ==
    <<preq, pval, pts, rows, committed, prediction_count, clock, received>>
predictVars == <<ppc, pused, presp, handlerVars>>
retrainVars ==
    <<shared, pc, req, todo, results, performance, resp, before, admitted>>

\* both processes have started and no /retrain request has arrived
InitRetrain ==
    /\ is_running = [s \in Services |-> FALSE]
    /\ last_run = [s \in Services |-> None]
    /\ last_result = [s \in Services |-> Absent]
    /\ model = [s \in Services |-> 0]
    /\ artifact = [m \in ModelTypes |-> 0]
    /\ pc = [t \in RThreads |-> "idle"]
    /\ req = [t \in RThreads |-> [model_type |-> None, force |-> FALSE]]
    /\ todo = [t \in RThreads |-> <<>>]
    /\ results = [t \in RThreads |-> NoResults]
    /\ performance = [t \in RThreads |-> None]
    /\ resp = [t \in RThreads |-> NoResponse]
    /\ before = [t \in RThreads |-> 0]
    /\ admitted = 0

\* the tables exist and are empty, prediction_count = 0
InitTables ==
    /\ pused = [p \in PThreads \cup QThreads |-> 0]
    /\ presp = [p \in PThreads \cup QThreads |-> NoResponse]
    /\ pval = [q \in QThreads |-> 0]
    /\ pts = [q \in QThreads |-> 0]
    /\ rows = [s \in Services |-> <<>>]
    /\ committed = [s \in Services |-> 0]
    /\ prediction_count = 0
    /\ clock = 1

Init ==
    /\ InitRetrain
    /\ InitTables
    /\ ppc = [p \in PThreads \cup QThreads |-> "idle"]
    /\ preq = [q \in QThreads |-> Typical(svc(q))]
    /\ received = 0

\* one /retrain request with any valid body has been admitted by one API
InitRun ==
    /\ is_running = [s \in Services |-> FALSE]
    /\ last_run = [s \in Services |-> None]
    /\ last_result = [s \in Services |-> Absent]
    /\ model = [s \in Services |-> 0]
    /\ artifact = [m \in ModelTypes |-> 0]
    /\ todo = [t \in RThreads |-> <<>>]
    /\ results = [t \in RThreads |-> NoResults]
    /\ performance = [t \in RThreads |-> None]
    /\ before = [t \in RThreads |-> 0]
    /\ admitted = 1
    /\ InitTables
    /\ ppc = [p \in PThreads \cup QThreads |-> "idle"]
    /\ preq = [q \in QThreads |-> Typical(svc(q))]
    /\ received = 0
    /\ \E t \in {"h1", "i1"} : \E r \in AnyRetrainRequest :
          /\ pc = [u \in RThreads |-> IF u = t THEN "admitted" ELSE "idle"]
          /\ req = [u \in RThreads |->
                      IF u = t THEN r
                      ELSE [model_type |-> None, force |-> FALSE]]
          /\ resp = [u \in RThreads |->
                       IF u = t /\ svc(t) = "iris"
                       THEN [code |-> 200, status |-> "started"]
                       ELSE NoResponse]

\* one request of the sweep has arrived at one of the two APIs
InitValidate ==
    /\ InitRetrain
    /\ InitTables
    /\ received = 1
    /\ \E q \in {"hq1", "iq1"} : \E r \in Sweep(svc(q)) :
          /\ ppc = [p \in PThreads \cup QThreads |->
                      IF p = q THEN "received" ELSE "idle"]
          /\ preq = [p \in QThreads |->
                       IF p = q THEN r ELSE Typical(svc(p))]

\* ------------------------------------------------- the one/ variants
\* the file a one/ API loads first, and the file it falls back to
PrimaryFile(s) == IF s = "housing" THEN "LinearRegression" ELSE "RandomForest"
AlternateFile(s) == IF s = "housing" THEN "DecisionTree" ELSE "LogisticRegression"

\* the content of a model file: primary files are rewritten by retraining
\* (artifact counts the rewrites), alternate files are never rewritten
Loaded(s, file) ==
    [file |-> file, version |-> IF file = PrimaryFile(s) THEN artifact[s] ELSE 0]

\* the unfitted estimator a one/ API builds when neither file loads
Dummy == [file |-> "dummy", version |-> 0]

\* a one/ process has started: its model comes from the primary file, or
\* from the alternate one, or is the dummy; no /retrain request has arrived
InitOne ==
    /\ is_running = [s \in Services |-> FALSE]
    /\ last_run = [s \in Services |-> None]
    /\ last_result = [s \in Services |-> Absent]
    /\ artifact = [m \in ModelTypes |-> 0]
    /\ model \in [Services -> {Dummy} \cup
                    [file : {"LinearRegression", "DecisionTree",
                             "RandomForest", "LogisticRegression"},
                     version : {0}]]
    /\ \A s \in Services :
          model[s] \in {Loaded(s, PrimaryFile(s)),
                        Loaded(s, AlternateFile(s)), Dummy}
    /\ before = [t \in RThreads |-> model[svc(t)]]
    /\ pc = [t \in RThreads |-> "idle"]
    /\ req = [t \in RThreads |-> [model_type |-> None, force |-> FALSE]]
    /\ todo = [t \in RThreads |-> <<>>]
    /\ results = [t \in RThreads |-> NoResults]
    /\ performance = [t \in RThreads |-> None]
    /\ resp = [t \in RThreads |-> NoResponse]
    /\ admitted = 0
    /\ InitTables
    /\ ppc = [p \in PThreads \cup QThreads |-> "idle"]
    /\ preq = [q \in QThreads |-> Typical(svc(q))]
    /\ received = 0

oneVars == <<is_running, last_run, last_result, req, todo, results,
             performance, predictVars>>

\* POST /retrain reaches retrain_model of a one/ API
OneCall(t) ==
    /\ pc[t] = "idle"
    /\ admitted < MaxRequests
    /\ admitted' = admitted + 1
    /\ pc' = [pc EXCEPT ![t] = "retraining"]
    /\ before' = [before EXCEPT ![t] = model[svc(t)]]
    /\ resp' = [resp EXCEPT ![t] = NoResponse]
    /\ UNCHANGED <<model, artifact, oneVars>>

\* the retrainer of a one/ API persists the retrained model to the primary
\* file of its service
Persisted(s) == [artifact EXCEPT ![s] = @ + 1]

\* retrain_housing_model / retrain_iris_model returns
OneRetrainOk(t) ==
    /\ pc[t] = "retraining"
    /\ artifact' = Persisted(svc(t))
    /\ pc' = [pc EXCEPT ![t] = "reload"]
    /\ UNCHANGED <<model, resp, before, admitted, oneVars>>

\* the import or the retrainer raises: except Exception -> HTTPException 500
OneRetrainFail(t) ==
    /\ pc[t] = "retraining"
    /\ pc' = [pc EXCEPT ![t] = "idle"]
    /\ resp' = [resp EXCEPT ![t] = [code |-> 500, status |-> "failed"]]
    /\ UNCHANGED <<model, artifact, before, admitted, oneVars>>

\* model = joblib.load(primary) succeeds; the success message is returned
OneLoadPrimary(t) ==
    /\ pc[t] = "reload"
    /\ model' = [model EXCEPT ![svc(t)] = Loaded(svc(t), PrimaryFile(svc(t)))]
    /\ pc' = [pc EXCEPT ![t] = "idle"]
    /\ resp' = [resp EXCEPT ![t] = [code |-> 200, status |-> "success"]]
    /\ UNCHANGED <<artifact, before, admitted, oneVars>>

\* joblib.load(primary) raises: the bare except goes on to the alternate
OnePrimaryFails(t) ==
    /\ pc[t] = "reload"
    /\ pc' = [pc EXCEPT ![t] = "fallback"]
    /\ UNCHANGED <<model, artifact, resp, before, admitted, oneVars>>

\* model = joblib.load(alternate) succeeds; the success message is returned
OneLoadAlternate(t) ==
    /\ pc[t] = "fallback"
    /\ model' = [model EXCEPT ![svc(t)] = Loaded(svc(t), AlternateFile(svc(t)))]
    /\ pc' = [pc EXCEPT ![t] = "idle"]
    /\ resp' = [resp EXCEPT ![t] = [code |-> 200, status |-> "success"]]
    /\ UNCHANGED <<artifact, before, admitted, oneVars>>

\* joblib.load(alternate) raises too: except Exception -> HTTPException 500
OneAlternateFails(t) ==
    /\ pc[t] = "fallback"
    /\ pc' = [pc EXCEPT ![t] = "idle"]
    /\ resp' = [resp EXCEPT ![t] = [code |-> 500, status |-> "failed"]]
    /\ UNCHANGED <<model, artifact, before, admitted, oneVars>>

\* retrain_model of a one/ API, from the call to the response
OneRetrain(t) ==
    \/ OneCall(t)
    \/ OneRetrainOk(t)
    \/ OneRetrainFail(t)
    \/ OneLoadPrimary(t)
    \/ OnePrimaryFails(t)
    \/ OneLoadAlternate(t)
    \/ OneAlternateFails(t)


\* ------------------------------------------------------ POST /retrain
\* a rejection that also resets the flag it found set
Reject_ClearsFlag(t) ==
    /\ pc[t] = "idle"
    /\ is_running[svc(t)]
    /\ is_running' = [is_running EXCEPT ![svc(t)] = FALSE]
    /\ resp' = [resp EXCEPT ![t] =
                  [code |-> 409, status |-> "RetrainingInProgress"]]
    /\ UNCHANGED <<last_run, last_result, model, artifact, pc, req, todo,
                   results, performance, before, predictVars, admitted>>

\* retrain_model: retraining_status["is_running"] is true -> HTTPException 409
Reject(t) ==
    /\ pc[t] = "idle"
    /\ is_running[svc(t)]
    /\ resp' = [resp EXCEPT ![t] =
                  [code |-> 409, status |-> "RetrainingInProgress"]]
    /\ UNCHANGED <<shared, pc, req, todo, results, performance, before,
                   predictVars, admitted>>

\* retrain_model: the check passed.  housing_api.py goes on to call
\* run_model_retraining on this thread; main.py adds it as a background task
\* and returns the acknowledgement "started".
Admit(t) ==
    /\ pc[t] = "idle"
    /\ ~is_running[svc(t)]
    /\ admitted < MaxRequests
    /\ \E r \in RetrainRequest : req' = [req EXCEPT ![t] = r]
    /\ pc' = [pc EXCEPT ![t] = "admitted"]
    /\ resp' = [resp EXCEPT ![t] =
                  IF svc(t) = "iris" THEN [code |-> 200, status |-> "started"]
                  ELSE NoResponse]
    /\ admitted' = admitted + 1
    /\ UNCHANGED <<shared, todo, results, performance, before, predictVars>>

\* run_model_retraining: is_running = True, start_time = now
Begin(t) ==
    /\ pc[t] = "admitted"
    /\ is_running' = [is_running EXCEPT ![svc(t)] = TRUE]
    /\ before' = [before EXCEPT ![t] = model[svc(t)]]
    /\ pc' = [pc EXCEPT ![t] = "import"]
    /\ UNCHANGED <<last_run, last_result, model, artifact, req, todo, results,
                   performance, resp, predictVars, admitted>>

\* where the thread goes when run_model_retraining has returned
AfterRun(t) == IF svc(t) = "housing" THEN "respond" ELSE "idle"

\* the locals of a call that has returned are gone
Return(t) ==
    /\ req' = [req EXCEPT ![t] = [model_type |-> None, force |-> FALSE]]
    /\ todo' = [todo EXCEPT ![t] = <<>>]
    /\ results' = [results EXCEPT ![t] = NoResults]
    /\ performance' = [performance EXCEPT ![t] = None]
    /\ before' = [before EXCEPT ![t] = 0]

\* the background task of main.py ends with the run; the handler of
\* housing_api.py still has its response to build
Leave(t) == IF svc(t) = "iris" THEN Return(t) ELSE UNCHANGED locals

\* the import and the construction of monitor and retrainer succeed
ImportOk(t) ==
    /\ pc[t] = "import"
    /\ pc' = [pc EXCEPT ![t] = "loop"]
    /\ todo' = [todo EXCEPT ![t] = ModelsToRetrain(req[t].model_type)]
    /\ results' = [results EXCEPT ![t] = NoResults]
    /\ UNCHANGED <<shared, req, performance, resp, before, predictVars,
                   admitted>>

\* the outer except without the finally clause: the flag stays set
ImportFail_NoFinally(t) ==
    /\ pc[t] = "import"
    /\ last_result' = [last_result EXCEPT ![svc(t)] =
                         [status |-> "failed", error |-> "import_error"]]
    /\ pc' = [pc EXCEPT ![t] = AfterRun(t)]
    /\ Leave(t)
    /\ UNCHANGED <<is_running, last_run, model, artifact, resp, predictVars,
                   admitted>>

\* they raise: the outer except records error_result, finally clears the flag
ImportFail(t) ==
    /\ pc[t] = "import"
    /\ last_result' = [last_result EXCEPT ![svc(t)] =
                         [status |-> "failed", error |-> "import_error"]]
    /\ is_running' = [is_running EXCEPT ![svc(t)] = FALSE]
    /\ pc' = [pc EXCEPT ![t] = AfterRun(t)]
    /\ Leave(t)
    /\ UNCHANGED <<last_run, model, artifact, resp, predictVars, admitted>>

\* ---------------------------------------------- the for loop of the run
model_name(t) == Head(todo[t])

Record(t, r) == [results EXCEPT ![t][model_name(t)] = r]

\* not force: performance = monitor.evaluate_model_performance(model_name)
Evaluate(t) ==
    /\ pc[t] = "loop"
    /\ todo[t] # <<>>
    /\ ~req[t].force
    /\ \E report \in Reports : performance' = [performance EXCEPT ![t] = report]
    /\ pc' = [pc EXCEPT ![t] = "evaluated"]
    /\ UNCHANGED <<shared, req, todo, results, resp, before, predictVars,
                   admitted>>

\* not force, and monitor.evaluate_model_performance raises: inner except
MonitorFail(t) ==
    /\ pc[t] = "loop"
    /\ todo[t] # <<>>
    /\ ~req[t].force
    /\ results' = Record(t, FailedResult("monitor_error"))
    /\ todo' = [todo EXCEPT ![t] = Tail(todo[t])]
    /\ UNCHANGED <<shared, pc, req, performance, resp, before, predictVars,
                   admitted>>

\* if not performance.get("needs_retraining", False): the model type is
\* recorded as skipped (continue)
Skip(t) ==
    /\ pc[t] = "evaluated"
    /\ ~GetNeedsRetraining(performance[t])
    /\ results' = Record(t, SkippedResult(performance[t]))
    /\ todo' = [todo EXCEPT ![t] = Tail(todo[t])]
    /\ pc' = [pc EXCEPT ![t] = "loop"]
    /\ UNCHANGED <<shared, req, performance, resp, before, predictVars,
                   admitted>>

\* force, or the report asks for retraining: the retrainer is called
StartRetrain(t) ==
    /\ \/ pc[t] = "loop" /\ todo[t] # <<>> /\ req[t].force
       \/ pc[t] = "evaluated" /\ GetNeedsRetraining(performance[t])
    /\ pc' = [pc EXCEPT ![t] = "retraining"]
    /\ UNCHANGED <<shared, req, todo, results, performance, resp, before,
                   predictVars, admitted>>

\* a run that reloads the served model after every successful retrain,
\* whichever model type was retrained
RetrainOk_AlwaysReloads(t) ==
    /\ pc[t] = "retraining"
    /\ artifact' = [artifact EXCEPT ![model_name(t)] = @ + 1]
    /\ results' = Record(t, RetrainResult)
    /\ pc' = [pc EXCEPT ![t] = "reload"]
    /\ todo' = todo
    /\ UNCHANGED <<is_running, last_run, last_result, model, req, performance,
                   resp, before, predictVars, admitted>>

\* retrainer.retrain_<model_name>_model returns: it has persisted a new
\* artifact.  The process's own model type goes on to reload it.
RetrainOk(t) ==
    /\ pc[t] = "retraining"
    /\ artifact' = [artifact EXCEPT ![model_name(t)] = @ + 1]
    /\ results' = Record(t, RetrainResult)
    /\ IF model_name(t) = svc(t)
       THEN /\ pc' = [pc EXCEPT ![t] = "reload"]
            /\ todo' = todo
       ELSE /\ pc' = [pc EXCEPT ![t] = "loop"]
            /\ todo' = [todo EXCEPT ![t] = Tail(todo[t])]
    /\ UNCHANGED <<is_running, last_run, last_result, model, req, performance,
                   resp, before, predictVars, admitted>>

\* a failure that leaves the for loop: the model types that follow are
\* not attempted
RetrainFail_Aborts(t) ==
    /\ pc[t] = "retraining"
    /\ results' = Record(t, FailedResult("retrain_error"))
    /\ pc' = [pc EXCEPT ![t] = "loop"]
    /\ todo' = [todo EXCEPT ![t] = <<>>]
    /\ UNCHANGED <<shared, req, performance, resp, before, predictVars,
                   admitted>>

\* the retrainer raises: inner except
RetrainFail(t) ==
    /\ pc[t] = "retraining"
    /\ results' = Record(t, FailedResult("retrain_error"))
    /\ pc' = [pc EXCEPT ![t] = "loop"]
    /\ todo' = [todo EXCEPT ![t] = Tail(todo[t])]
    /\ UNCHANGED <<shared, req, performance, resp, before, predictVars,
                   admitted>>

\* the reference joblib.load returns for the artifact file
Load(m) == artifact[m]

\* a publish that updates the served model object in place: the global
\* refers to a model of which only a part is the new one
ReloadOk_InPlace(t) ==
    /\ pc[t] = "reload"
    /\ model' = [model EXCEPT ![svc(t)] = 0 - 1]
    /\ pc' = [pc EXCEPT ![t] = "loop"]
    /\ todo' = [todo EXCEPT ![t] = Tail(todo[t])]
    /\ UNCHANGED <<is_running, last_run, last_result, artifact, req, results,
                   performance, resp, before, predictVars, admitted>>

\* model = joblib.load(...): the publish is this one assignment
ReloadOk(t) ==
    /\ pc[t] = "reload"
    /\ model' = [model EXCEPT ![svc(t)] = Load(svc(t))]
    /\ pc' = [pc EXCEPT ![t] = "loop"]
    /\ todo' = [todo EXCEPT ![t] = Tail(todo[t])]
    /\ UNCHANGED <<is_running, last_run, last_result, artifact, req, results,
                   performance, resp, before, predictVars, admitted>>

\* joblib.load raises: nothing is assigned, inner except
ReloadFail(t) ==
    /\ pc[t] = "reload"
    /\ results' = Record(t, FailedResult("load_error"))
    /\ pc' = [pc EXCEPT ![t] = "loop"]
    /\ todo' = [todo EXCEPT ![t] = Tail(todo[t])]
    /\ UNCHANGED <<shared, req, performance, resp, before, predictVars,
                   admitted>>

\* results["status"] after the loop
RunStatus(rs) == "completed"

\* after the loop: status, last_run and last_result are set, finally clears
\* the flag and run_model_retraining returns
Complete(t) ==
    /\ pc[t] = "loop"
    /\ todo[t] = <<>>
    /\ last_run' = [last_run EXCEPT ![svc(t)] = t]
    /\ last_result' = [last_result EXCEPT ![svc(t)] =
                         [status |-> RunStatus(results[t]),
                          model_type |-> req[t].model_type,
                          force |-> req[t].force,
                          results |-> results[t]]]
    /\ is_running' = [is_running EXCEPT ![svc(t)] = FALSE]
    /\ pc' = [pc EXCEPT ![t] = AfterRun(t)]
    /\ Leave(t)
    /\ UNCHANGED <<model, artifact, resp, predictVars, admitted>>

\* housing_api.py retrain_model after the run: status is read back from
\* retraining_status["last_result"]
\* result = retraining_status.get("last_result") or {}
\* status = result.get("status", "completed")
ResultStatus(result) ==
    IF result.status = None THEN "completed" ELSE result.status

Respond(t) ==
    /\ pc[t] = "respond"
    /\ resp' = [resp EXCEPT ![t] =
                  [code |-> 200, status |-> ResultStatus(last_result[svc(t)])]]
    /\ pc' = [pc EXCEPT ![t] = "idle"]
    /\ Return(t)
    /\ UNCHANGED <<shared, predictVars, admitted>>

\* ------------------------------------------------------ POST /predict
\* a predict that first waits for the retraining flag to be clear
PredictRead_Blocked(p) ==
    /\ ~is_running[svc(p)]
    /\ ppc[p] = "idle"
    /\ pused' = [pused EXCEPT ![p] = model[svc(p)]]
    /\ ppc' = [ppc EXCEPT ![p] = "predicting"]
    /\ UNCHANGED <<shared, pc, req, todo, results, performance, resp, before,
                   admitted, presp, handlerVars>>

\* predict: the global `model` is read once, in model.predict(...)
PredictRead(p) ==
    /\ ppc[p] = "idle"
    /\ pused' = [pused EXCEPT ![p] = model[svc(p)]]
    /\ ppc' = [ppc EXCEPT ![p] = "predicting"]
    /\ UNCHANGED <<shared, pc, req, todo, results, performance, resp, before,
                   admitted, presp, handlerVars>>

\* the model returns a value: 200
PredictOk(p) ==
    /\ ppc[p] = "predicting"
    /\ presp' = [presp EXCEPT ![p] = [code |-> 200, served_by |-> pused[p]]]
    /\ ppc' = [ppc EXCEPT ![p] = "idle"]
    /\ pused' = [pused EXCEPT ![p] = 0]
    /\ UNCHANGED <<shared, pc, req, todo, results, performance, resp, before,
                   admitted, handlerVars>>

\* the model raises: 500 PredictionError
PredictFail(p) ==
    /\ ppc[p] = "predicting"
    /\ presp' = [presp EXCEPT ![p] = [code |-> 500, served_by |-> pused[p]]]
    /\ ppc' = [ppc EXCEPT ![p] = "idle"]
    /\ pused' = [pused EXCEPT ![p] = 0]
    /\ UNCHANGED <<shared, pc, req, todo, results, performance, resp, before,
                   admitted, handlerVars>>


\* --------------------------------- POST /predict, statement by statement
\* a request body arrives at a worker thread
Receive(q) ==
    /\ ppc[q] = "idle"
    /\ received < MaxPredicts
    /\ received' = received + 1
    /\ \E r \in Samples(svc(q)) : preq' = [preq EXCEPT ![q] = r]
    /\ ppc' = [ppc EXCEPT ![q] = "received"]
    /\ UNCHANGED <<retrainVars, pused, presp, pval, pts, rows, committed,
                   prediction_count, clock>>

\* the thread answers: the locals of predict are gone
Answer(q, response) ==
    /\ presp' = [presp EXCEPT ![q] = response]
    /\ ppc' = [ppc EXCEPT ![q] = "idle"]
    /\ pused' = [pused EXCEPT ![q] = 0]
    /\ pval' = [pval EXCEPT ![q] = 0]
    /\ pts' = [pts EXCEPT ![q] = 0]

\* the body fails HousingRequest / IrisRequest: FastAPI answers 422 and
\* predict is not called
Refuse(q) ==
    /\ ppc[q] = "received"
    /\ Errors(svc(q), preq[q]) # {}
    /\ Answer(q, Unprocessable(Errors(svc(q), preq[q])))
    /\ UNCHANGED <<retrainVars, preq, rows, committed, prediction_count,
                   clock, received>>

\* prediction_count += 1, the first statement of housing_api.py's predict
Count(q) ==
    IF svc(q) = "housing" THEN prediction_count + 1 ELSE prediction_count

\* predict is called and its own check of the request passes
Enter(q) ==
    /\ ppc[q] = "received"
    /\ Errors(svc(q), preq[q]) = {}
    /\ prediction_count' = Count(q)
    /\ HandlerCheckOk(svc(q), preq[q])
    /\ ppc' = [ppc EXCEPT ![q] = "checked"]
    /\ UNCHANGED <<retrainVars, pused, presp, preq, pval, pts, rows,
                   committed, clock, received>>

\* predict is called and its own check raises HTTPException(422)
EnterFail(q) ==
    /\ ppc[q] = "received"
    /\ Errors(svc(q), preq[q]) = {}
    /\ prediction_count' = Count(q)
    /\ ~HandlerCheckOk(svc(q), preq[q])
    /\ Answer(q, Caught("HTTPException422", HandlerCheckCause(svc(q))))
    /\ UNCHANGED <<retrainVars, preq, rows, committed, clock, received>>

\* model.predict returns a value
ModelReturns(q) ==
    /\ ppc[q] = "checked"
    /\ pused' = [pused EXCEPT ![q] = model[svc(q)]]
    /\ \E v \in Outputs(svc(q)) : pval' = [pval EXCEPT ![q] = v]
    /\ ppc' = [ppc EXCEPT ![q] = "predicted"]
    /\ UNCHANGED <<retrainVars, presp, preq, pts, rows, committed,
                   prediction_count, clock, received>>

\* model.predict raises
ModelRaises(q) ==
    /\ ppc[q] = "checked"
    /\ Answer(q, Caught("Exception", "model_error"))
    /\ UNCHANGED <<retrainVars, preq, rows, committed, prediction_count,
                   clock, received>>

\* main.py: a class outside 0..2 is logged and raised as HTTPException(500)
UnexpectedClass(q) ==
    /\ ppc[q] = "predicted"
    /\ svc(q) = "iris"
    /\ Unusual(svc(q), pval[q])
    /\ Answer(q, Caught("HTTPException500", "unexpected_class"))
    /\ UNCHANGED <<retrainVars, preq, rows, committed, prediction_count,
                   clock, received>>

\* housing_api.py only warns about an unusual price.  logging.info, then
\* datetime.now() is evaluated for the row.
Stamp(q) ==
    /\ ppc[q] = "predicted"
    /\ svc(q) = "housing" \/ ~Unusual(svc(q), pval[q])
    /\ pts' = [pts EXCEPT ![q] = clock]
    /\ clock' = clock + 1
    /\ ppc' = [ppc EXCEPT ![q] = "stamped"]
    /\ UNCHANGED <<retrainVars, pused, presp, preq, pval, rows, committed,
                   prediction_count, received>>

\* the row of the INSERT statement
Row(q) == [timestamp |-> pts[q], inputs |-> preq[q], prediction |-> pval[q]]

\* an insert that leaves out a row whose inputs the table already holds
Insert_Deduplicated(q) ==
    /\ ppc[q] = "stamped"
    /\ rows' = [rows EXCEPT ![svc(q)] =
                  IF \E i \in 1..Len(@) : @[i].inputs = preq[q]
                  THEN @ ELSE Append(@, Row(q))]
    /\ ppc' = [ppc EXCEPT ![q] = "inserted"]
    /\ UNCHANGED <<retrainVars, pused, presp, preq, pval, pts, committed,
                   prediction_count, clock, received>>

\* cursor.execute("INSERT INTO ... VALUES (?, ?, ?)") on the shared cursor
Insert(q) ==
    /\ ppc[q] = "stamped"
    /\ rows' = [rows EXCEPT ![svc(q)] = Append(@, Row(q))]
    /\ ppc' = [ppc EXCEPT ![q] = "inserted"]
    /\ UNCHANGED <<retrainVars, pused, presp, preq, pval, pts, committed,
                   prediction_count, clock, received>>

\* cursor.execute raises
InsertFail(q) ==
    /\ ppc[q] = "stamped"
    /\ Answer(q, Caught("Exception", "insert_error"))
    /\ UNCHANGED <<retrainVars, preq, rows, committed, prediction_count,
                   clock, received>>

\* conn.commit() on the shared connection: every pending row is durable
Commit(q) ==
    /\ ppc[q] = "inserted"
    /\ committed' = [committed EXCEPT ![svc(q)] = Len(rows[svc(q)])]
    /\ ppc' = [ppc EXCEPT ![q] = "committed"]
    /\ UNCHANGED <<retrainVars, pused, presp, preq, pval, pts, rows,
                   prediction_count, clock, received>>

\* conn.commit() raises: the row stays pending in the open transaction
CommitFail(q) ==
    /\ ppc[q] = "inserted"
    /\ Answer(q, Caught("Exception", "commit_error"))
    /\ UNCHANGED <<retrainVars, preq, rows, committed, prediction_count,
                   clock, received>>

\* mlops_metrics.record_prediction returns and the response is built
Reply(q) ==
    /\ ppc[q] = "committed"
    /\ Answer(q, Result(svc(q), pval[q]))
    /\ UNCHANGED <<retrainVars, preq, rows, committed, prediction_count,
                   clock, received>>

\* mlops_metrics.record_prediction raises
MetricsFail(q) ==
    /\ ppc[q] = "committed"
    /\ Answer(q, Caught("Exception", "metrics_error"))
    /\ UNCHANGED <<retrainVars, preq, rows, committed, prediction_count,
                   clock, received>>

\* the statements of predict from the call of the handler on
Handle(q) ==
    \/ Refuse(q)
    \/ Enter(q)
    \/ EnterFail(q)
    \/ ModelReturns(q)
    \/ ModelRaises(q)
    \/ Stamp(q)
    \/ Insert(q)
    \/ InsertFail(q)
    \/ Commit(q)
    \/ CommitFail(q)
    \/ Reply(q)
    \/ MetricsFail(q)

\* the steps of an admitted /retrain request that both files share
Job(t) ==
    \/ Admit(t)
    \/ Begin(t)
    \/ ImportOk(t)
    \/ ImportFail(t)
    \/ Evaluate(t)
    \/ MonitorFail(t)
    \/ Skip(t)
    \/ StartRetrain(t)
    \/ RetrainOk(t)
    \/ RetrainFail(t)
    \/ ReloadOk(t)
    \/ ReloadFail(t)
    \/ Complete(t)

\* the steps of run_model_retraining
Steps(t) ==
    \/ Begin(t)
    \/ ImportOk(t)
    \/ ImportFail(t)
    \/ Evaluate(t)
    \/ MonitorFail(t)
    \/ Skip(t)
    \/ StartRetrain(t)
    \/ RetrainOk(t)
    \/ RetrainFail(t)
    \/ ReloadOk(t)
    \/ ReloadFail(t)
    \/ Complete(t)

\* a /retrain request is rejected or admitted
Run(t) ==
    \/ Reject(t)
    \/ Job(t)

Predict(p) ==
    \/ PredictRead(p)
    \/ PredictOk(p)
    \/ PredictFail(p)

\* the housing API process with two /retrain workers
NextHousing == \E t \in HThreads : Run(t) \/ Respond(t)

\* the iris API process with two /retrain workers
NextIris == \E t \in IThreads : Run(t)

\* both API processes side by side, one /retrain worker each
\* (a process's only /retrain worker never finds the flag set)
NextBoth ==
    \/ Job("h1") \/ Respond("h1")
    \/ Job("i1")

\* both API processes, one /retrain worker and one /predict worker each
NextServe ==
    \/ NextBoth /\ admitted' <= MaxServeRequests
    \/ \E p \in PThreads : Predict(p)

\* the housing API process with two /predict workers
NextPredictHousing == \E q \in HQThreads : Receive(q) \/ Handle(q)

\* the iris API process with two /predict workers
NextPredictIris ==
    \E q \in IQThreads : Receive(q) \/ Handle(q) \/ UnexpectedClass(q)

\* both API processes, one /predict worker each
NextPredictBoth ==
    \/ Receive("hq1") \/ Handle("hq1")
    \/ Receive("iq1") \/ Handle("iq1") \/ UnexpectedClass("iq1")

\* one request to either API, from its arrival to its answer
NextValidate ==
    \/ Handle("hq1")
    \/ Handle("iq1") \/ UnexpectedClass("iq1")

\* the one/ variants, one /retrain request at a time in each
NextOne == OneRetrain("h1") \/ OneRetrain("i1")

\* one admitted /retrain request of either API, from its run to its answer
NextRun ==
    \/ Steps("h1") \/ Respond("h1")
    \/ Steps("i1")

SpecHousing == Init /\ [][NextHousing]_vars
SpecIris == Init /\ [][NextIris]_vars
SpecBoth == Init /\ [][NextBoth]_vars
SpecServe == Init /\ [][NextServe]_vars
SpecPredictHousing == Init /\ [][NextPredictHousing]_vars
SpecPredictIris == Init /\ [][NextPredictIris]_vars
SpecPredictBoth == Init /\ [][NextPredictBoth]_vars
SpecValidate == InitValidate /\ [][NextValidate]_vars
SpecRun == InitRun /\ [][NextRun]_vars
SpecOne == InitOne /\ [][NextOne]_vars

\* ================================================================ claims
RunStates == {"import", "loop", "evaluated", "retraining", "reload"}

\* an execution of run_model_retraining by thread t is in progress
InRun(t) == pc[t] \in RunStates

\* the request of thread t was admitted and its run has not finished
Pending(t) == pc[t] = "admitted" \/ InRun(t)

SameProcess(t, u) == svc(t) = svc(u)

\* C1: in the housing API process at most one execution of
\* run_model_retraining is in progress at any time.
C1_OneRunPerProcess ==
    Cardinality({t \in HThreads : InRun(t)}) <= 1

\* C2: in the iris API, a POST /retrain handled while another request's
\* job is acknowledged and not finished is never admitted (it gets 409),
\* also when that job's background task has not begun.
C2_RejectedOnceAcknowledged ==
    [][\A t \in IThreads :
          (pc[t] = "idle" /\ pc'[t] = "admitted")
             => \A u \in IThreads \ {t} : ~Pending(u)]_vars

\* thread t is inside the retrainer call for model type m
Retraining(t, m) == pc[t] = "retraining" /\ model_name(t) = m

\* C3: the housing API process and the iris API process never run the
\* retrainer for the same model type at the same time.
C3_NoOverlapAcrossServices ==
    \A t \in HThreads, u \in IThreads, m \in ModelTypes :
        ~(Retraining(t, m) /\ Retraining(u, m))

\* a reference to a model that joblib.load built completely from a version
\* of the process's artifact file (0: the model loaded at start-up)
FullyLoaded(s, v) == v \in 0..artifact[s]

\* C4: the global `model` is at every moment a completely loaded model, and
\* a /predict works with the one reference it read: what it holds while
\* predicting, and what its 200 response was computed by, is a completely
\* loaded model (the one before a publish or the published one).
C4_AtomicPublish ==
    \A p \in PThreads :
        /\ FullyLoaded(svc(p), model[svc(p)])
        /\ ppc[p] = "predicting" => FullyLoaded(svc(p), pused[p])
        /\ presp[p].code = 200 => FullyLoaded(svc(p), presp[p].served_by)

\* a /predict read the old reference, the run published a new one, and the
\* /predict returned 200 from the old one while the run was still going on
C4_Witness ==
    \E p \in PThreads, t \in RThreads :
        /\ SameProcess(p, t)
        /\ InRun(t)
        /\ model[svc(p)] # before[t]
        /\ presp[p].code = 200
        /\ presp[p].served_by = before[t]

\* C5: when the retraining of the process's own model type raised (in the
\* retrainer or in the reload), then at the return of the run the global
\* `model` is the reference that was active when the run started, and the
\* recorded result of that model type carries the exception's message.
C5_FailedRunKeepsModel ==
    [][\A t \in RThreads :
          (/\ pc[t] = "loop" /\ todo[t] = <<>> /\ pc'[t] \notin RunStates
           /\ results[t][svc(t)].status = "failed"
           /\ results[t][svc(t)].error \in {"retrain_error", "load_error"})
             => /\ model'[svc(t)] = before[t]
                /\ last_result'[svc(t)].results[svc(t)]
                      = FailedResult(results[t][svc(t)].error)]_vars

\* C6: a run in which the retraining of a requested model type raised is
\* recorded with the overall status "failed", not "completed".
C6_FailedRunIsFailed ==
    \A s \in Services :
        last_result[s].status = "completed"
           => \A m \in ModelTypes : last_result[s].results[m].status # "failed"

\* C7: retraining_status["is_running"] is false whenever a run returns,
\* whatever its outcome, and it is never true without a run in progress, so
\* that a finished run never causes a 409.
C7_FlagClearedOnReturn ==
    /\ [](\A s \in Services :
             is_running[s] => \E t \in RThreads : svc(t) = s /\ InRun(t))
    /\ [][\A t \in RThreads :
             (InRun(t) /\ pc'[t] \notin RunStates) => ~is_running'[svc(t)]]_vars

\* a run failed at the import, the flag is clear and a later request of the
\* same process has been admitted
C7_Witness ==
    \E t \in RThreads :
        /\ pc[t] = "admitted"
        /\ last_result[svc(t)].status = "failed"
        /\ ~is_running[svc(t)]
        /\ \A u \in RThreads \ {t} : pc[u] = "idle"

\* C8: a POST /retrain that is answered 409 changes nothing but that
\* response: no run starts, retraining_status, the model reference, the
\* artifacts and the state of the run in progress stay as they are.
C8_RejectChangesNothing ==
    [][\A t \in RThreads :
          (pc[t] = "idle" /\ is_running[svc(t)] /\ resp'[t] # resp[t])
             => /\ resp'[t].code = 409
                /\ pc' = pc
                /\ UNCHANGED <<shared, locals, admitted>>]_vars

\* a request was answered 409 while the run of another request of the same
\* process is in progress
C8_Witness ==
    \E t \in RThreads, u \in RThreads :
        /\ t # u
        /\ SameProcess(t, u)
        /\ pc[t] = "idle"
        /\ resp[t].code = 409
        /\ InRun(u)

\* C9: with force = false and a report whose needs_retraining is false, the
\* run records status "skipped" with reason "performance_acceptable" for
\* the model type, goes on with the loop without calling the retrainer, and
\* leaves the model reference and the artifacts unchanged.
C9_SkipWhenAcceptable ==
    [][\A t \in RThreads :
          (/\ pc[t] = "evaluated"
           /\ ~req[t].force
           /\ performance[t] = "needs_false"
           /\ pc'[t] # "evaluated")
             => /\ pc'[t] = "loop"
                /\ results'[t][model_name(t)].status = "skipped"
                /\ results'[t][model_name(t)].reason = "performance_acceptable"
                /\ todo'[t] = Tail(todo[t])
                /\ model' = model
                /\ artifact' = artifact]_vars

\* a run skipped the process's own model type on a needs_retraining = false
\* report and finished with the start-up model still in place
C9_Witness ==
    \E s \in Services :
        /\ last_result[s].status = "completed"
        /\ last_result[s].force = FALSE
        /\ last_result[s].results[s] = SkippedResult("needs_false")
        /\ model[s] = 0
        /\ artifact[s] = 0

\* C10: with force = false and a report that carries no needs_retraining
\* verdict, the run goes on to call the retrainer for the model type.
C10_ColdStartRetrains ==
    [][\A t \in RThreads :
          (/\ pc[t] = "evaluated"
           /\ performance[t] = "no_verdict"
           /\ pc'[t] # "evaluated")
             => pc'[t] = "retraining"]_vars
\* the model types a run was asked for
Requested(model_type) ==
    {ModelsToRetrain(model_type)[i] :
        i \in 1..Len(ModelsToRetrain(model_type))}

\* C11: a failure while one model type is evaluated or retrained does not
\* keep the next one from being attempted: the result stored by a run that
\* entered its loop holds an entry for every model type the request asked for.
C11_EveryRequestedTypeRecorded ==
    \A s \in Services :
        last_result[s].status = "completed" =>
            \A m \in Requested(last_result[s].model_type) :
                last_result[s].results[m].status # None

\* a run over both model types in which housing failed and iris, attempted
\* after it, was retrained
C11_Witness ==
    \E s \in Services :
        /\ last_result[s].status = "completed"
        /\ last_result[s].model_type = None
        /\ last_result[s].results["housing"].status = "failed"
        /\ last_result[s].results["iris"].status = "retrained"

\* a part exceeds its whole
PartOverWhole(api, r) ==
    IF api = "housing"
    THEN r.total_bedrooms > r.total_rooms \/ r.households > r.population
    ELSE r.petal_width > r.petal_length \/ r.sepal_width > r.sepal_length

\* every field lies inside its declared bounds
AllInBounds(api, r) ==
    \A i \in 1..Len(Order(api)) :
        InBounds(Bounds(api)[Order(api)[i]], r[Order(api)[i]])

\* the thread has answered the request it holds
Answered(q) == ppc[q] = "idle" /\ presp[q].code # 0

\* C12: a request in which a part exceeds its whole (bedrooms over rooms,
\* households over population, petal or sepal width over length) is answered
\* 422 by validation and predict is never entered for it, whatever the other
\* fields hold.
C12_PartOverWholeRejected ==
    \A q \in QThreads :
        PartOverWhole(svc(q), preq[q]) =>
            /\ ppc[q] \in {"idle", "received"}
            /\ Answered(q) =>
                 /\ presp[q].code = 422
                 /\ presp[q].cause = "field_validation"

\* a request with every field inside its bounds was refused for its part
\* exceeding its whole
C12_Witness ==
    \E q \in QThreads :
        /\ PartOverWhole(svc(q), preq[q])
        /\ AllInBounds(svc(q), preq[q])
        /\ Answered(q)
        /\ presp[q].code = 422

\* the derived ratios lie in their bands: population / households in
\* [0.5, 20]; petal width / length in [0.01, 1.0], sepal width / length in
\* [0.2, 1.0]
InRatioBands(api, r) ==
    IF api = "housing"
    THEN /\ 2 * r.population >= r.households
         /\ r.population <= 20 * r.households
    ELSE /\ 100 * r.petal_width >= r.petal_length
         /\ r.petal_width <= r.petal_length
         /\ 5 * r.sepal_width >= r.sepal_length
         /\ r.sepal_width <= r.sepal_length

\* every field in its bounds, no part over its whole, both bands kept
WithinDeclaredRules(api, r) ==
    /\ AllInBounds(api, r)
    /\ ~PartOverWhole(api, r)
    /\ InRatioBands(api, r)

ValidationCauses == {"field_validation", "derived_feature", "biological"}

\* this step answers thread q's request
Answers(q) == ppc[q] # "idle" /\ ppc'[q] = "idle"

\* C14: a request refused for a validation reason (a field bound, a
\* cross-field rule, or the derived-feature / biological check inside
\* predict) changes no state of the service: the model was not called, no
\* row was added and the counter /app-metrics reports did not move.
C14_RefusalChangesNothing ==
    [][\A q \in QThreads :
          (Answers(q) /\ presp'[q].cause \in ValidationCauses) =>
              /\ ppc[q] = "received"
              /\ rows' = rows
              /\ committed' = committed
              /\ prediction_count' = prediction_count]_vars

\* C15: a request that passes field validation and fails the check inside
\* the handler (AveRooms > 50, AveBedrms > 10; a short and wide petal) is
\* answered 422 ValidationError, not 500 PredictionError.
C15_HandlerCheckAnswers422 ==
    \A q \in QThreads :
        (Answered(q) /\ presp[q].cause \in {"derived_feature", "biological"})
            => presp[q].code = 422 /\ presp[q].error = "ValidationError"

\* the durable rows of the table that carry timestamp ts
RowsStamped(s, n, ts) == {i \in 1..n : rows[s][i].timestamp = ts}

\* C16: a /predict that is answered 500 PredictionError leaves no row of its
\* own in the prediction table, whichever statement raised.
C16_FailedPredictLeavesNoRow ==
    [][\A q \in QThreads :
          (Answers(q) /\ presp'[q].code = 500) =>
              RowsStamped(svc(q), committed[svc(q)], pts[q]) = {}]_vars

\* C17: the prediction table is append-only with one row for each accepted
\* request: the INSERT of a request appends exactly its row, identical
\* inputs included; a request answered 200 has exactly one durable row; and
\* no step removes or changes a row or takes back a commit.
C17_AppendOnlyOneRowPerSuccess ==
    [][/\ \A s \in Services :
            /\ Len(rows'[s]) >= Len(rows[s])
            /\ SubSeq(rows'[s], 1, Len(rows[s])) = rows[s]
            /\ committed'[s] >= committed[s]
       /\ \A q \in QThreads :
            /\ (ppc[q] = "stamped" /\ ppc'[q] = "inserted") =>
                  rows'[svc(q)] = Append(rows[svc(q)], Row(q))
            /\ (Answers(q) /\ presp'[q].code = 200) =>
                  Cardinality(RowsStamped(svc(q), committed[svc(q)],
                                          pts[q])) = 1]_vars

\* two requests with the same inputs were both answered 200 and the table
\* holds a durable row for each
C17_Witness ==
    \E s \in Services :
        /\ committed[s] = 2
        /\ rows[s][1].inputs = rows[s][2].inputs
        /\ \A q \in QThreads : svc(q) = s => Answered(q) /\ presp[q].code = 200

\* C18: the timestamps of a table never decrease in row order, however
\* concurrent /predict requests interleave.
C18_TimestampsInRowOrder ==
    \A s \in Services : \A i, j \in 1..Len(rows[s]) :
        i < j => rows[s][i].timestamp <= rows[s][j].timestamp

\* C19: a failure while the prediction is recorded (the INSERT or the commit
\* raises) is not surfaced: the request is answered 200.
C19_RecordingFailureNotSurfaced ==
    \A q \in QThreads :
        (Answered(q) /\ presp[q].cause \in {"insert_error", "commit_error"})
            => presp[q].code = 200

\* C20: a model output outside the plausible range (price below 0 or above
\* 10, class outside 0..2) only produces a warning: the handler goes on to
\* record the prediction and does not answer with an error.
C20_UnusualOutputOnlyWarns ==
    [][\A q \in QThreads :
          (/\ ppc[q] = "predicted"
           /\ Unusual(svc(q), pval[q])
           /\ ppc'[q] # "predicted") => ppc'[q] = "stamped"]_vars

\* GET /app-metrics: housing_api.py returns the global prediction_count,
\* main.py returns SELECT COUNT(*) on the shared cursor
TotalPredictions(s) ==
    IF s = "housing" THEN prediction_count ELSE Len(rows[s])

\* C21: at every moment the total_predictions of /app-metrics equals the
\* number of rows recorded so far in the service's prediction table,
\* whatever successful and failed /predict calls there were.  It is stated
\* for the moments at which no /predict call of the service is under way.
C21_TotalPredictionsIsRowCount ==
    \A s \in Services :
        (\A q \in QThreads : svc(q) = s => ppc[q] = "idle") =>
            TotalPredictions(s) = Len(rows[s])

\* C22: a /predict request is never blocked or refused because a retraining
\* run is in progress: whatever the retrain path is doing, a /predict worker
\* can take its next step, so a request issued while is_running is true can
\* complete before the run ends.
C22_PredictNeverBlocked ==
    \A p \in PThreads : ENABLED Predict(p)

\* a /predict read the model this run has just published and was answered
\* 200 while the run was still in progress
C22_Witness ==
    \E p \in PThreads :
        /\ is_running[svc(p)]
        /\ presp[p].code = 200
        /\ presp[p].served_by = artifact[svc(p)]
        /\ artifact[svc(p)] > 0

\* the status of the run thread t itself executed, while t still holds the
\* run's locals: "completed" when the loop recorded a result, "failed" when
\* the run ended in the outer except before the loop
OwnStatus(t) == IF results[t] = NoResults THEN "failed" ELSE "completed"

\* C23: in the synchronous housing API an admitted POST /retrain answers
\* after its own run has ended, with the status of the run it started
\* itself and not that of another request's run.
C23_RespondsWithOwnStatus ==
    [][\A t \in HThreads :
          (pc[t] = "respond" /\ pc'[t] = "idle") =>
              resp'[t].status = OwnStatus(t)]_vars

\* the fields of request r that lie outside their declared bounds
OutOfBound(api, r) ==
    {Order(api)[i] : i \in 1..Len(Order(api))}
        \ {f \in DOMAIN r : InBounds(Bounds(api)[f], r[f])}

\* C24: a request with at least one field outside its declared bound is
\* answered 422 whatever the other fields hold, predict is not entered, and
\* the error detail has an entry naming each such field.
C24_OutOfBoundFieldNamed ==
    \A q \in QThreads :
        OutOfBound(svc(q), preq[q]) # {} =>
            /\ ppc[q] \in {"idle", "received"}
            /\ Answered(q) =>
                 /\ presp[q].code = 422
                 /\ OutOfBound(svc(q), preq[q]) \subseteq presp[q].fields

\* a request with two fields out of bound was answered 422 naming both
C24_Witness ==
    \E q \in QThreads :
        /\ Cardinality(OutOfBound(svc(q), preq[q])) >= 2
        /\ Answered(q)
        /\ presp[q].code = 422
        /\ OutOfBound(svc(q), preq[q]) \subseteq presp[q].fields

\* C25: every 200 answer of the iris /predict carries a predicted_class in
\* 0..2 and the class_name of that class (0 setosa, 1 versicolor,
\* 2 virginica), never "unknown".
C25_IrisClassAndNameMatch ==
    \A q \in IQThreads :
        (Answered(q) /\ presp[q].code = 200) =>
            /\ presp[q].prediction \in {0, 1, 2}
            /\ presp[q].prediction = 0 => presp[q].class_name = "setosa"
            /\ presp[q].prediction = 1 => presp[q].class_name = "versicolor"
            /\ presp[q].prediction = 2 => presp[q].class_name = "virginica"
            /\ presp[q].class_name # "unknown"

\* the iris API has answered 200 with class 2, virginica
C25_Witness ==
    \E q \in IQThreads :
        /\ Answered(q)
        /\ presp[q].code = 200
        /\ presp[q].prediction = 2
        /\ presp[q].class_name = "virginica"

\* total_rooms / households lies outside [0.5, 50]
RoomsPerHouseholdOutside(r) ==
    /\ r.households > 0
    /\ 2 * r.total_rooms < r.households \/ r.total_rooms > 50 * r.households

\* C26: validate_rooms_per_household refuses every housing request whose
\* total_rooms / households lies outside [0.5, 50]: such a request is
\* answered 422 by validation and predict is not entered.
C26_RoomsPerHouseholdRejected ==
    \A q \in HQThreads :
        RoomsPerHouseholdOutside(preq[q]) =>
            /\ ppc[q] \in {"idle", "received"}
            /\ Answered(q) =>
                 /\ presp[q].code = 422
                 /\ presp[q].cause = "field_validation"

\* the field the handlers and validators divide by
Divisor(api, r) ==
    IF api = "housing" THEN {r.households}
    ELSE {r.petal_length, r.sepal_length}

\* C27: no ratio is computed with a zero divisor: no validator divides by
\* zero, predict (which divides by households) is entered only with a
\* positive households, and a request whose divisor field is 0 is answered
\* 422.
C27_NoDivisionByZero ==
    \A q \in QThreads :
        /\ 0 \notin Divisors(svc(q), preq[q])
        /\ ppc[q] \notin {"idle", "received"} =>
             \A d \in Divisor(svc(q), preq[q]) : d > 0
        /\ (Answered(q) /\ 0 \in Divisor(svc(q), preq[q])) =>
             presp[q].code = 422

\* a request with households = 0 and a valid population, or with a zero
\* length, was answered 422
C27_Witness ==
    \E q \in QThreads :
        /\ Answered(q)
        /\ 0 \in Divisor(svc(q), preq[q])
        /\ presp[q].code = 422
        /\ svc(q) = "housing" =>
             InBounds(HousingBounds.population, preq[q].population)

\* the model types the claim expects a run with this model_type to attempt
Expected(model_type) ==
    IF model_type = "housing" THEN <<"housing">>
    ELSE IF model_type = "iris" THEN <<"iris">>
    ELSE <<"housing", "iris">>

\* the model types a finished run has an entry for
Attempted(result) == {m \in ModelTypes : result.results[m].status # None}

\* C28: model_type alone decides which model types a run attempts:
\* "housing" exactly housing, "iris" exactly iris, absent housing and then
\* iris, and any other string is taken like absent.
C28_ModelTypeSelectsModels ==
    /\ \A t \in RThreads :
          pc[t] \in {"loop", "evaluated", "retraining", "reload"} =>
              \E k \in 0..Len(Expected(req[t].model_type)) :
                  todo[t] = SubSeq(Expected(req[t].model_type), k + 1,
                                   Len(Expected(req[t].model_type)))
    /\ \A s \in Services :
          last_result[s].status = "completed" =>
              Attempted(last_result[s]) =
                  {Expected(last_result[s].model_type)[i] :
                      i \in 1..Len(Expected(last_result[s].model_type))}

\* a run asked for "foo" has attempted both model types
C28_Witness ==
    \E s \in Services :
        /\ last_result[s].status = "completed"
        /\ last_result[s].model_type = "foo"
        /\ Attempted(last_result[s]) = {"housing", "iris"}

\* C29: the model reference of an API is replaced only by a retraining run,
\* and only right after that run has retrained the API's own model type
\* successfully: a run that is at another model type, has skipped or has
\* failed the own type does not reload, and no /predict step changes the
\* reference.
C29_ModelReplacedOnlyByOwnRetrain ==
    [][/\ \A s \in Services :
            model'[s] # model[s] =>
                \E t \in RThreads :
                    /\ svc(t) = s
                    /\ pc[t] = "reload" /\ pc'[t] = "loop"
                    /\ model_name(t) = s
                    /\ results[t][s].status = "retrained"
                    /\ model'[s] = artifact[s]
       /\ \A t \in RThreads :
            pc[t] = "reload" =>
                model_name(t) = svc(t) /\ results[t][svc(t)].status = "retrained"
      ]_vars

\* the housing API serves a model it reloaded although the run that
\* retrained and reloaded it went on to fail iris
C29_Witness ==
    /\ model["housing"] > 0
    /\ last_result["housing"].status = "completed"
    /\ last_result["housing"].results["housing"].status = "retrained"
    /\ last_result["housing"].results["iris"].status = "failed"
    /\ model["iris"] = 0

\* C30: in the one/ variants, when POST /retrain has reported success the
\* in-memory model is the one loaded from the primary file this retraining
\* just persisted, never one from the alternate file; and when it has
\* answered 500 the in-memory model is the one the request found.
C30_SuccessServesPersistedModel ==
    \A t \in {"h1", "i1"} :
        pc[t] = "idle" =>
            /\ resp[t].code = 200 =>
                   model[svc(t)] = Loaded(svc(t), PrimaryFile(svc(t)))
            /\ resp[t].code = 500 => model[svc(t)] = before[t]

====
